---------------------------- MODULE Spec2Model ----------------------------
(***************************************************************************)
(* Model of src/server.js: an express/mongoose backend that stores users,  *)
(* blood/organ/money donors and receivers, gates every donor/receiver      *)
(* record behind an admin verification status, and answers matching        *)
(* queries for approved receivers.                                         *)
(*                                                                         *)
(* The store is the seven mongoose collections.  A handler that writes     *)
(* after an await (register, user update, organ-donor and money-donor      *)
(* submissions) is split at the await, and its continuation waits in       *)
(* `pending` while other requests run.  A handler with one store call, and *)
(* a handler that only reads (login, the listings, the matching queries,   *)
(* whose two or three reads are taken from one state of the store), is one *)
(* action.                                                                 *)
(***************************************************************************)
EXTENDS Integers, Sequences, FiniteSets, TLC

VARIABLES
    users,      \* the User collection: a set of documents
    coll,       \* the six donor/receiver collections: kind -> set of documents
    nextId,     \* the next ObjectId the store hands out
    now,        \* Date.now(), in milliseconds since the model's day 0
    pending,    \* handlers suspended at an await: a set of continuations
    last,       \* the most recent recorded HTTP response
    observed,   \* the endpoints whose responses are recorded (never changes)
    redecided   \* history: ids of the records whose decision a later
                \* admin call replaced (kept while that endpoint is observed)

vars == <<users, coll, nextId, now, pending, last, observed, redecided>>

---------------------------------------------------------------------------
(* Bounds of the model.                                                    *)

MaxDocs == 2
MaxDocsWide == 3
MaxClock == 1
MaxClockWide == 2
MaxSlots == 1
MaxSlotsWide == 2

---------------------------------------------------------------------------
(* JavaScript values of a request body or query string.                    *)

Undefined == [t |-> "undefined"]
NaN == [t |-> "NaN"]
Str(s) == [t |-> "string", s |-> s]
Num(n) == [t |-> "number", n |-> n]
Bool(b) == [t |-> "boolean", b |-> b]
\* a string that new Date() parses, denoting the instant `time`
DateStr(time) == [t |-> "datestring", time |-> time]
\* a 24-hex-digit string, denoting ObjectId n
IdStr(n) == [t |-> "idstring", n |-> n]

\* JavaScript truthiness: the test of `!x`, `if (x)`, `x || y`, Boolean(x)
Truthy(x) ==
    CASE x.t = "undefined" -> FALSE
      [] x.t = "NaN" -> FALSE
      [] x.t = "string" -> x.s # ""
      [] x.t = "number" -> x.n # 0
      [] x.t = "boolean" -> x.b
      [] OTHER -> TRUE

Digit == {"0", "1", "2", "3", "4", "5", "6", "7", "8", "9"}

DigitValue(c) ==
    CASE c = "0" -> 0 [] c = "1" -> 1 [] c = "2" -> 2 [] c = "3" -> 3
      [] c = "4" -> 4 [] c = "5" -> 5 [] c = "6" -> 6 [] c = "7" -> 7
      [] c = "8" -> 8 [] c = "9" -> 9

AllDigits(s) == \A i \in 1..Len(s) : SubSeq(s, i, i) \in Digit

RECURSIVE DecimalValue(_)
DecimalValue(s) ==
    IF s = "" THEN 0
    ELSE 10 * DecimalValue(SubSeq(s, 1, Len(s) - 1))
         + DigitValue(SubSeq(s, Len(s), Len(s)))

\* Number(x): a number is itself, a string of decimal digits is its value
\* ("" is 0), any other string and undefined are NaN
ToNumber(x) ==
    CASE x.t = "number" -> x
      [] x.t = "string" -> IF AllDigits(x.s) THEN Num(DecimalValue(x.s)) ELSE NaN
      [] x.t = "boolean" -> Num(IF x.b THEN 1 ELSE 0)
      [] OTHER -> NaN

IsNaN(x) == x.t = "NaN"

\* PhoneRegexTest with a fault: the pattern without its end anchor, /^\d{10}/
PhoneRegexTestUnanchored(phone) ==
    /\ phone.t = "string"
    /\ Len(phone.s) >= 10
    /\ AllDigits(SubSeq(phone.s, 1, 10))

\* /^\d{10}$/.test(phone): the argument is converted to a string first, so
\* undefined is tested as "undefined"
PhoneRegexTest(phone) ==
    /\ phone.t = "string"
    /\ Len(phone.s) = 10
    /\ AllDigits(phone.s)

---------------------------------------------------------------------------
(* Time.  Date.now() is `now` milliseconds after the model's day 0; a date *)
(* sent by a client is [day, ms]: `ms` milliseconds after the start of day *)
(* `day` (a negative day is before day 0).  The split keeps the millisecond *)
(* arithmetic of the code exact without numbers beyond 32 bits.            *)

MsPerDay == 1000 * 60 * 60 * 24
CooldownDays == 90
MinAge == 18
MaxAge == 65
MinWeight == 50

DateAt(day, ms) == [day |-> day, ms |-> ms]
InvalidDate == [day |-> 0, ms |-> -1]

\* new Date(x): the instant of a parseable string, Invalid Date otherwise
NewDate(x) == IF x.t = "datestring" THEN x.time ELSE InvalidDate

\* isNaN(date.getTime())
IsInvalidDate(d) == d = InvalidDate

\* Math.floor((Date.now() - lastDate.getTime()) / (1000 * 60 * 60 * 24))
\*   = floor((t - (day * MsPerDay + ms)) / MsPerDay)
\*   = floor((t - ms) / MsPerDay) - day            (\div rounds down)
DiffDays(t, lastDate) == ((t - lastDate.ms) \div MsPerDay) - lastDate.day

\* a Date field of a stored document
DateV(t) == [t |-> "date", v |-> t]

---------------------------------------------------------------------------
(* Responses.                                                              *)

\* An exchange: the request as the handler read it, and the status code and
\* JSON body of its response
Resp(op, req, code, body) ==
    [op |-> op, req |-> req, code |-> code, body |-> body]
Err(msg) == [error |-> msg]
NoRequest == [none |-> TRUE]
NoResponse == Resp("none", NoRequest, 0, [error |-> ""])

---------------------------------------------------------------------------
(* The store.                                                              *)

Kinds == {"blood-donor", "blood-receiver", "organ-donor", "organ-receiver",
          "money-donor", "money-receiver"}

Statuses == {"pending", "approved", "rejected"}

\* model.findById(id) / findOne({_id}): the document with that ObjectId
ById(docs, id) == {d \in docs : d._id = id}

\* mongoose casts the id of findById / findByIdAndUpdate to an ObjectId and
\* throws CastError for a string that is not one
CastsToObjectId(x) == x.t = "idstring"

\* new BloodDonor({..., verificationStatus: 'pending', submittedAt: new Date()})
\* with the schema defaults of the fields the handler does not pass
BloodDonorDoc(id, body, ageNum, weightNum, donatedBefore, lastDate, t) ==
    [_id |-> id, name |-> body.name, phone |-> body.phone, age |-> ageNum,
     weight |-> weightNum, bloodGroup |-> body.bloodGroup,
     hasDonatedBefore |-> donatedBefore, lastDonationDate |-> lastDate,
     isVerified |-> FALSE, verificationStatus |-> "pending",
     adminNotes |-> "", submittedAt |-> DateV(t), verifiedAt |-> Undefined]

\* BloodReceiverDoc with a fault: the receiver is stored as approved
BloodReceiverDocApproved(id, body, t) ==
    [_id |-> id, name |-> body.name, phone |-> body.phone,
     bloodNeed |-> body.bloodNeed,
     isVerified |-> TRUE, verificationStatus |-> "approved",
     adminNotes |-> "", submittedAt |-> DateV(t), verifiedAt |-> Undefined]

BloodReceiverDoc(id, body, t) ==
    [_id |-> id, name |-> body.name, phone |-> body.phone,
     bloodNeed |-> body.bloodNeed,
     isVerified |-> FALSE, verificationStatus |-> "pending",
     adminNotes |-> "", submittedAt |-> DateV(t), verifiedAt |-> Undefined]

OrganDonorDoc(id, body, weightNum, donatedBefore, lastDate, t) ==
    [_id |-> id, name |-> body.name, phone |-> body.phone,
     weight |-> weightNum, organType |-> body.organType,
     conditionStatus |-> body.conditionStatus,
     hasDonatedBefore |-> donatedBefore, lastDonationDate |-> lastDate,
     isVerified |-> FALSE, verificationStatus |-> "pending",
     adminNotes |-> "", submittedAt |-> DateV(t), verifiedAt |-> Undefined]

OrganReceiverDoc(id, body, t) ==
    [_id |-> id, name |-> body.name, phone |-> body.phone,
     organNeed |-> body.organNeed,
     isVerified |-> FALSE, verificationStatus |-> "pending",
     adminNotes |-> "", submittedAt |-> DateV(t), verifiedAt |-> Undefined]

MoneyDonorDoc(id, body, t) ==
    [_id |-> id, donorName |-> body.donorName, amount |-> body.amount,
     paymentMethod |-> body.paymentMethod,
     isVerified |-> FALSE, verificationStatus |-> "pending",
     adminNotes |-> "", submittedAt |-> DateV(t), verifiedAt |-> Undefined]

MoneyReceiverDoc(id, body, t) ==
    [_id |-> id, name |-> body.name, phone |-> body.phone,
     moneyAmount |-> body.moneyAmount, moneyNeed |-> body.moneyNeed,
     isVerified |-> FALSE, verificationStatus |-> "pending",
     adminNotes |-> "", submittedAt |-> DateV(t), verifiedAt |-> Undefined]

\* model.save() of a new document: it gets the next ObjectId
Insert(kind, doc) ==
    /\ coll' = [coll EXCEPT ![kind] = @ \cup {doc}]
    /\ nextId' = nextId + 1

AllDocs == UNION {coll[k] : k \in Kinds}

---------------------------------------------------------------------------
(* Validation of the donor submissions.                                    *)

\* CooldownError with a fault: the boundary day itself is refused
CooldownErrorInclusive(hasDonatedBefore, lastDonationDate, t) ==
    IF ~Truthy(hasDonatedBefore) THEN ""
    ELSE IF ~Truthy(lastDonationDate)
         THEN "Last donation date is required for previous donors"
    ELSE IF IsInvalidDate(NewDate(lastDonationDate))
         THEN "Invalid last donation date"
    ELSE IF DiffDays(t, NewDate(lastDonationDate)) <= CooldownDays
         THEN "At least 90 days must have passed since the last donation"
    ELSE ""

\* The prior-donation check: "" when the submission passes, else the message
\* of the 400 response
CooldownError(hasDonatedBefore, lastDonationDate, t) ==
    IF ~Truthy(hasDonatedBefore) THEN ""
    ELSE IF ~Truthy(lastDonationDate)
         THEN "Last donation date is required for previous donors"
    ELSE IF IsInvalidDate(NewDate(lastDonationDate))
         THEN "Invalid last donation date"
    ELSE IF DiffDays(t, NewDate(lastDonationDate)) < CooldownDays
         THEN "At least 90 days must have passed since the last donation"
    ELSE ""

\* lastDate as the handler leaves it: null unless the donor donated before
LastDate(hasDonatedBefore, lastDonationDate) ==
    IF Truthy(hasDonatedBefore) THEN [t |-> "date", at |-> NewDate(lastDonationDate)]
    ELSE Undefined

\* AgeError with a fault: the lower boundary itself is refused
AgeErrorExclusive(age) ==
    LET ageNum == ToNumber(age) IN
    IF IsNaN(ageNum) \/ ageNum.n <= MinAge \/ ageNum.n > MaxAge
    THEN "Age must be between 18 and 65" ELSE ""

AgeError(age) ==
    LET ageNum == ToNumber(age) IN
    IF IsNaN(ageNum) \/ ageNum.n < MinAge \/ ageNum.n > MaxAge
    THEN "Age must be between 18 and 65" ELSE ""

WeightError(weight) ==
    LET weightNum == ToNumber(weight) IN
    IF IsNaN(weightNum) \/ weightNum.n < MinWeight
    THEN "Weight must be at least 50 kg" ELSE ""

BloodDonorError(body, t) ==
    IF \/ ~Truthy(body.name) \/ ~Truthy(body.phone) \/ ~Truthy(body.age)
       \/ ~Truthy(body.weight) \/ ~Truthy(body.bloodGroup)
    THEN "Missing required fields"
    ELSE IF ~PhoneRegexTest(body.phone) THEN "Invalid phone number format"
    ELSE IF AgeError(body.age) # "" THEN AgeError(body.age)
    ELSE IF WeightError(body.weight) # "" THEN WeightError(body.weight)
    ELSE CooldownError(body.hasDonatedBefore, body.lastDonationDate, t)

OrganDonorError(body, t) ==
    IF \/ ~Truthy(body.name) \/ ~Truthy(body.phone) \/ ~Truthy(body.organType)
       \/ ~Truthy(body.conditionStatus) \/ ~Truthy(body.weight)
    THEN "Missing required fields"
    ELSE IF ~PhoneRegexTest(body.phone) THEN "Invalid phone number format"
    ELSE IF WeightError(body.weight) # "" THEN WeightError(body.weight)
    ELSE CooldownError(body.hasDonatedBefore, body.lastDonationDate, t)

---------------------------------------------------------------------------
(* Handlers that complete in one store round trip.  `maxDocs` caps the     *)
(* ObjectIds handed out; every other guard is the code's.                  *)

\* res.status(code).json(body), kept in `last` when the endpoint is observed
Reply(op, req, code, body) ==
    last' = IF op \in observed THEN Resp(op, req, code, body) ELSE last

FreeSlots(maxSlots) == {n \in 1..maxSlots : \A c \in pending : c.req # n}

\* the slot a suspended handler takes
NewSlot(maxSlots) ==
    CHOOSE n \in FreeSlots(maxSlots) : \A m \in FreeSlots(maxSlots) : n <= m

\* ObjectIds are left for a new document, counting the users that suspended
\* register calls may still create
Room(maxDocs) ==
    nextId + Cardinality({c \in pending : c.op = "register"}) <= maxDocs

\* a response computed by an operator, recorded like Reply's
Observe(r) == last' = IF r.op \in observed THEN r ELSE last

Submitted(message, key, id) ==
    [message |-> message, idKey |-> key, id |-> id,
     status |-> "pending_verification"]

\* POST /api/blood-donor
BloodDonorSubmit(maxDocs, body) ==
    LET e == BloodDonorError(body, now) IN
    /\ e = "" => Room(maxDocs)
    /\ IF e # ""
       THEN /\ Reply("POST /api/blood-donor", body, 400, Err(e))
            /\ UNCHANGED <<coll, nextId>>
       ELSE /\ Insert("blood-donor",
                      BloodDonorDoc(nextId, body, ToNumber(body.age).n,
                          ToNumber(body.weight).n, Truthy(body.hasDonatedBefore),
                          LastDate(body.hasDonatedBefore, body.lastDonationDate),
                          now))
            /\ Reply("POST /api/blood-donor", body, 201,
                     Submitted("Blood donor registration submitted for verification",
                               "donorId", nextId))
    /\ UNCHANGED <<users, now, pending, observed, redecided>>

ReceiverNotice ==
    " Donor details will be available once an admin approves your request."

\* POST /api/blood-receiver
BloodReceiverSubmit(maxDocs, body) ==
    /\ Room(maxDocs)
    /\ Insert("blood-receiver", BloodReceiverDoc(nextId, body, now))
    /\ Reply("POST /api/blood-receiver", body, 201,
             Submitted("Blood receiver registration submitted for verification."
                           \o ReceiverNotice,
                       "receiverId", nextId))
    /\ UNCHANGED <<users, now, pending, observed, redecided>>

\* POST /api/organ-receiver
OrganReceiverSubmit(maxDocs, body) ==
    /\ Room(maxDocs)
    /\ Insert("organ-receiver", OrganReceiverDoc(nextId, body, now))
    /\ Reply("POST /api/organ-receiver", body, 201,
             Submitted("Organ receiver registration submitted for verification."
                           \o ReceiverNotice,
                       "receiverId", nextId))
    /\ UNCHANGED <<users, now, pending, observed, redecided>>

\* POST /api/money-receiver
MoneyReceiverSubmit(maxDocs, body) ==
    /\ Room(maxDocs)
    /\ Insert("money-receiver", MoneyReceiverDoc(nextId, body, now))
    /\ Reply("POST /api/money-receiver", body, 201,
             Submitted("Money receiver registration submitted for verification",
                       "receiverId", nextId))
    /\ UNCHANGED <<users, now, pending, observed, redecided>>

\* VerifyUpdate with a fault: a record once approved keeps isVerified
VerifyUpdateSticky(doc, status, notes, t) ==
    [doc EXCEPT !.verificationStatus = status,
                !.verifiedAt = DateV(t),
                !.isVerified = (doc.isVerified \/ status = "approved"),
                !.adminNotes = IF Truthy(notes) THEN notes.s ELSE ""]

\* VerifyUpdate with a guard the handler does not have: a record that is
\* already decided is left as it is
VerifyUpdateOnce(doc, status, notes, t) ==
    IF doc.verificationStatus # "pending" THEN doc
    ELSE [doc EXCEPT !.verificationStatus = status,
                     !.verifiedAt = DateV(t),
                     !.isVerified = (status = "approved"),
                     !.adminNotes = IF Truthy(notes) THEN notes.s ELSE ""]

\* updateData of POST /api/admin/verify, applied to the addressed document
VerifyUpdate(doc, status, notes, t) ==
    [doc EXCEPT !.verificationStatus = status,
                !.verifiedAt = DateV(t),
                !.isVerified = (status = "approved"),
                !.adminNotes = IF Truthy(notes) THEN notes.s ELSE ""]

VerifyRequest(type, id, status, notes) ==
    [type |-> type, id |-> id, status |-> status, notes |-> notes]

\* the call replaces a decision made earlier (kept in `redecided` while the
\* endpoint is observed)
Redecides(doc, status) ==
    /\ "POST /api/admin/verify" \in observed
    /\ doc.verificationStatus \notin {"pending", status}

\* POST /api/admin/verify
AdminVerify(type, id, status, notes) ==
    /\ IF type \notin Kinds
       THEN /\ Reply("POST /api/admin/verify",
                       VerifyRequest(type, id, status, notes), 400,
                       Err("Invalid verification type"))
            /\ UNCHANGED <<coll, redecided>>
       ELSE IF status \notin {"approved", "rejected"}
       THEN /\ Reply("POST /api/admin/verify",
                       VerifyRequest(type, id, status, notes), 400,
                       Err("Invalid status"))
            /\ UNCHANGED <<coll, redecided>>
       ELSE IF ~CastsToObjectId(id)
       THEN /\ Reply("POST /api/admin/verify",
                       VerifyRequest(type, id, status, notes), 500,
                       Err("Cast to ObjectId failed"))
            /\ UNCHANGED <<coll, redecided>>
       ELSE IF ById(coll[type], id.n) = {}
       THEN /\ Reply("POST /api/admin/verify",
                       VerifyRequest(type, id, status, notes), 404,
                       Err("Record not found"))
            /\ UNCHANGED <<coll, redecided>>
       ELSE LET doc == CHOOSE d \in ById(coll[type], id.n) : TRUE
                updated == VerifyUpdate(doc, status, notes, now)
            IN /\ coll' = [coll EXCEPT ![type] = (@ \ {doc}) \cup {updated}]
               /\ redecided' = IF Redecides(doc, status)
                                THEN redecided \cup {doc._id} ELSE redecided
               /\ Reply("POST /api/admin/verify",
                       VerifyRequest(type, id, status, notes), 200,
                       [message |-> "Verification " \o status \o " successfully",
                         record |-> updated])
    /\ UNCHANGED <<users, nextId, now, pending, observed>>

\* The clock advances between requests (two requests may also see the same
\* millisecond)
Tick(maxClock) ==
    /\ now < maxClock
    /\ now' = now + 1
    /\ UNCHANGED <<users, coll, nextId, pending, last, observed, redecided>>

\* the first document of find(...).sort({verifiedAt: -1, submittedAt: -1}):
\* documents equal in both keys come in an order the store chooses
FirstByVerifiedThenSubmitted(docs) ==
    {r \in docs : \A q \in docs :
        \/ q.verifiedAt.v < r.verifiedAt.v
        \/ /\ q.verifiedAt.v = r.verifiedAt.v
           /\ q.submittedAt.v <= r.submittedAt.v}

\* FirstBySubmitted with a fault: the sort ascending
FirstBySubmittedOldest(docs) ==
    {r \in docs : \A q \in docs : q.submittedAt.v >= r.submittedAt.v}

\* the first document of find(...).sort({submittedAt: -1})
FirstBySubmitted(docs) ==
    {r \in docs : \A q \in docs : q.submittedAt.v <= r.submittedAt.v}

\* Receiver.find({phone, verificationStatus: 'approved'})
ApprovedReceivers(receivers, phone) ==
    {r \in receivers : r.phone = phone /\ r.verificationStatus = "approved"}

\* ApprovedDonors with a fault: the filter on verificationStatus left out
AnyDonors(donors, attr, value) == {d \in donors : d[attr] = value}

\* Donor.find({[attr]: value, verificationStatus: 'approved'})
ApprovedDonors(donors, attr, value) ==
    {d \in donors : d[attr] = value /\ d.verificationStatus = "approved"}

NotApprovedMessage ==
    "Receiver has not been approved yet. Please wait for admin verification."

\* The responses a matching query may send: receivers and donors are the two
\* collections, need/attr the receiver's and the donor's resource field
MatchingResponses(op, receivers, donors, need, attr, phone) ==
    IF ~Truthy(phone) \/ ~PhoneRegexTest(phone)
    THEN {Resp(op, [phone |-> phone], 400, Err("Valid phone number is required"))}
    ELSE
      LET approved == ApprovedReceivers(receivers, phone)
          ofPhone == {r \in receivers : r.phone = phone}
      IN IF approved = {}
         THEN IF ofPhone = {}
              THEN {Resp(op, [phone |-> phone], 404,
                      Err("Receiver registration not found. Please register first."))}
              ELSE {Resp(op, [phone |-> phone],
                         403, [status |-> latest.verificationStatus,
                                   message |-> NotApprovedMessage]) :
                      latest \in FirstBySubmitted(ofPhone)}
         ELSE {Resp(op, [phone |-> phone], 200,
                 [message |-> "Receiver verified. Showing available donors.",
                  receiver |-> [name |-> receiver.name, phone |-> receiver.phone,
                                need |-> receiver[need]],
                  donors |-> ApprovedDonors(donors, attr, receiver[need])]) :
                 receiver \in FirstByVerifiedThenSubmitted(approved)}

ReadOnly == UNCHANGED <<users, coll, nextId, now, pending, observed, redecided>>

\* GET /api/blood-receiver/matching-donors
BloodMatchingDonors(phone) ==
    /\ \E r \in MatchingResponses("GET /api/blood-receiver/matching-donors",
                  coll["blood-receiver"], coll["blood-donor"],
                  "bloodNeed", "bloodGroup", phone) : Observe(r)
    /\ ReadOnly

\* GET /api/organ-receiver/matching-donors
OrganMatchingDonors(phone) ==
    /\ \E r \in MatchingResponses("GET /api/organ-receiver/matching-donors",
                  coll["organ-receiver"], coll["organ-donor"],
                  "organNeed", "organType", phone) : Observe(r)
    /\ ReadOnly

\* GET /api/has-donated
HasDonatedResponse(phone, type) ==
    IF ~Truthy(phone) \/ ~PhoneRegexTest(phone)
    THEN Resp("GET /api/has-donated", [phone |-> phone, type |-> type],
              400, Err("Valid phone is required"))
    ELSE IF type \notin {"blood", "organ"}
    THEN Resp("GET /api/has-donated", [phone |-> phone, type |-> type],
              400, Err("type must be one of: blood, organ"))
    ELSE LET donors == IF type = "blood" THEN coll["blood-donor"]
                       ELSE coll["organ-donor"]
         IN Resp("GET /api/has-donated", [phone |-> phone, type |-> type], 200,
                 [hasDonatedBefore |->
                     Cardinality({d \in donors : d.phone = phone}) > 0])

HasDonated(phone, type) ==
    /\ Observe(HasDonatedResponse(phone, type))
    /\ ReadOnly

\* GET /api/blood-donors
ListBloodDonors ==
    /\ Reply("GET /api/blood-donors", NoRequest, 200,
             [donors |-> {d \in coll["blood-donor"] :
                             d.verificationStatus = "approved"}])
    /\ ReadOnly

\* GET /api/organ-donors
ListOrganDonors ==
    /\ Reply("GET /api/organ-donors", NoRequest, 200, [donors |-> coll["organ-donor"]])
    /\ ReadOnly

\* GET /api/admin/pending-verifications
PendingVerifications ==
    /\ Reply("GET /api/admin/pending-verifications", NoRequest, 200,
             [k \in Kinds |-> {d \in coll[k] : d.verificationStatus = "pending"}])
    /\ ReadOnly

\* GET /api/admin/verification/:type/:id
VerificationDetailResponse(type, id) ==
    IF type \notin Kinds
    THEN Resp("GET /api/admin/verification", [type |-> type, id |-> id],
              400, Err("Invalid verification type"))
    ELSE IF ~CastsToObjectId(id)
    THEN Resp("GET /api/admin/verification", [type |-> type, id |-> id],
              500, Err("Cast to ObjectId failed"))
    ELSE IF ById(coll[type], id.n) = {}
    THEN Resp("GET /api/admin/verification", [type |-> type, id |-> id],
              404, Err("Verification not found"))
    ELSE Resp("GET /api/admin/verification", [type |-> type, id |-> id], 200,
              [record |-> CHOOSE d \in ById(coll[type], id.n) : TRUE])

VerificationDetail(type, id) ==
    /\ Observe(VerificationDetailResponse(type, id))
    /\ ReadOnly

---------------------------------------------------------------------------
(* Users.                                                                  *)

\* bcrypt.hash(password, 10): one-way; the salt is not modelled
Hash(password) == [bcrypt |-> password.s]

\* bcrypt.compare(password, hash)
Compare(password, hash) == hash.bcrypt = password.s

\* bcryptjs rejects an argument that is not a string ("Illegal arguments")
IsStringArg(x) == x.t = "string"

\* new User({name, phone, password: hashedPassword, profilePhoto, donations: []})
UserDoc(id, body) ==
    [_id |-> id, name |-> body.name, phone |-> body.phone,
     password |-> Hash(body.password), profilePhoto |-> body.profilePhoto,
     donations |-> <<>>]

\* the user as the responses carry it: every field but the password
UserResponse(u) ==
    [_id |-> u._id, name |-> u.name, phone |-> u.phone,
     profilePhoto |-> u.profilePhoto, donations |-> u.donations]

\* userSchema: name, phone, password and profilePhoto are required
UserValid(body) ==
    /\ Truthy(body.name) /\ Truthy(body.phone) /\ Truthy(body.profilePhoto)

\* PhoneTaken with a fault: no index and no check, every phone is free
PhoneTakenNever(phone, exceptId) == FALSE

\* the unique index on User.phone
PhoneTaken(phone, exceptId) ==
    \E u \in users : u.phone = phone /\ u._id # exceptId

\* POST /api/login
LoginResponse(us, phone, password) ==
    LET found == {u \in us : u.phone = phone} IN
    IF found = {}
    THEN Resp("POST /api/login", [phone |-> phone, password |-> password],
              401, Err("Invalid phone number or password"))
    ELSE LET user == CHOOSE u \in found : TRUE IN
         IF ~IsStringArg(password)
         THEN Resp("POST /api/login", [phone |-> phone, password |-> password],
                   500, Err("Illegal arguments"))
         ELSE IF ~Compare(password, user.password)
         THEN Resp("POST /api/login", [phone |-> phone, password |-> password],
                   401, Err("Invalid phone number or password"))
         ELSE Resp("POST /api/login", [phone |-> phone, password |-> password], 200,
                   [message |-> "Login successful", user |-> UserResponse(user)])

Login(phone, password) ==
    /\ Observe(LoginResponse(users, phone, password))
    /\ ReadOnly

\* GET /api/user/:id
GetUserResponse(id) ==
    IF ~CastsToObjectId(id)
    THEN Resp("GET /api/user", [id |-> id], 500, Err("Cast to ObjectId failed"))
    ELSE IF ById(users, id.n) = {}
    THEN Resp("GET /api/user", [id |-> id], 404, Err("User not found"))
    ELSE Resp("GET /api/user", [id |-> id], 200,
              [user |-> UserResponse(CHOOSE u \in ById(users, id.n) : TRUE)])

GetUser(id) ==
    /\ Observe(GetUserResponse(id))
    /\ ReadOnly

\* GET /api/users
ListUsers ==
    /\ Reply("GET /api/users", NoRequest,
             200, [users |-> {UserResponse(u) : u \in users}])
    /\ ReadOnly

---------------------------------------------------------------------------
(* Handlers with two store round trips.  The first action ends at the      *)
(* await; the continuation it leaves in `pending` is resumed by the second *)
(* action, after any number of steps of other requests.                    *)

\* POST /api/register, up to `await User.findOne({ phone })`
RegisterCheck(maxDocs, maxSlots, body) ==
    /\ IF \E u \in users : u.phone = body.phone
       THEN /\ Reply("POST /api/register", body, 400,
                     Err("User with this phone number already exists"))
            /\ UNCHANGED pending
       ELSE /\ Room(maxDocs)
            /\ FreeSlots(maxSlots) # {}
            /\ pending' = pending \cup
                   {[req |-> NewSlot(maxSlots), op |-> "register", body |-> body]}
            /\ UNCHANGED last
    /\ UNCHANGED <<users, coll, nextId, now, observed, redecided>>

\* POST /api/register, from bcrypt.hash to the response
RegisterSave(c) ==
    /\ c \in pending /\ c.op = "register"
    /\ pending' = pending \ {c}
    /\ IF ~IsStringArg(c.body.password)
       THEN /\ Reply("POST /api/register", c.body, 500, Err("Illegal arguments"))
            /\ UNCHANGED <<users, nextId>>
       ELSE IF ~UserValid(c.body)
       THEN /\ Reply("POST /api/register", c.body, 500, Err("User validation failed"))
            /\ UNCHANGED <<users, nextId>>
       ELSE IF PhoneTaken(c.body.phone, nextId)
       THEN /\ Reply("POST /api/register", c.body, 500, Err("E11000 duplicate key error"))
            /\ UNCHANGED <<users, nextId>>
       ELSE /\ users' = users \cup {UserDoc(nextId, c.body)}
            /\ nextId' = nextId + 1
            /\ Reply("POST /api/register", c.body, 201,
                     [message |-> "User registered successfully",
                      user |-> UserResponse(UserDoc(nextId, c.body))])
    /\ UNCHANGED <<coll, now, observed, redecided>>

\* updateData of PUT /api/user/:id applied to the user: only truthy fields
UpdateData(u, body) ==
    [u EXCEPT !.name = IF Truthy(body.name) THEN body.name ELSE @,
              !.phone = IF Truthy(body.phone) THEN body.phone ELSE @,
              !.profilePhoto = IF Truthy(body.profilePhoto)
                               THEN body.profilePhoto ELSE @]

\* PUT /api/user/:id from User.findByIdAndUpdate to the response
UpdateUserWrite(id, body) ==
    IF ~CastsToObjectId(id)
    THEN /\ Reply("PUT /api/user", [id |-> id, body |-> body],
                  500, Err("Cast to ObjectId failed"))
         /\ UNCHANGED users
    ELSE IF ById(users, id.n) = {}
    THEN /\ Reply("PUT /api/user", [id |-> id, body |-> body], 404, Err("User not found"))
         /\ UNCHANGED users
    ELSE LET u == CHOOSE x \in ById(users, id.n) : TRUE
             updated == UpdateData(u, body)
         IN IF PhoneTaken(updated.phone, u._id)
            THEN /\ Reply("PUT /api/user", [id |-> id, body |-> body],
                          500, Err("E11000 duplicate key error"))
                 /\ UNCHANGED users
            ELSE /\ users' = (users \ {u}) \cup {updated}
                 /\ Reply("PUT /api/user", [id |-> id, body |-> body], 200,
                          [message |-> "Profile updated successfully",
                           user |-> UserResponse(updated)])

\* PUT /api/user/:id: with a phone in the body, up to
\* `await User.findOne({ phone, _id: { $ne: req.params.id } })`; without one
\* the handler makes its only store call at once
UpdateUserCheck(maxSlots, id, body) ==
    /\ IF ~Truthy(body.phone)
       THEN /\ UpdateUserWrite(id, body)
            /\ UNCHANGED pending
       ELSE IF ~CastsToObjectId(id)
       THEN /\ Reply("PUT /api/user", [id |-> id, body |-> body],
                     500, Err("Cast to ObjectId failed"))
            /\ UNCHANGED <<users, pending>>
       ELSE IF PhoneTaken(body.phone, id.n)
       THEN /\ Reply("PUT /api/user", [id |-> id, body |-> body],
                     400, Err("Phone number already in use"))
            /\ UNCHANGED <<users, pending>>
       ELSE /\ FreeSlots(maxSlots) # {}
            /\ pending' = pending \cup
                   {[req |-> NewSlot(maxSlots), op |-> "updateUser",
                     id |-> id, body |-> body]}
            /\ UNCHANGED <<users, last>>
    /\ UNCHANGED <<coll, nextId, now, observed, redecided>>

UpdateUserSave(c) ==
    /\ c \in pending /\ c.op = "updateUser"
    /\ pending' = pending \ {c}
    /\ UpdateUserWrite(c.id, c.body)
    /\ UNCHANGED <<coll, nextId, now, observed, redecided>>

\* PushDonation with a fault: the save writes the log as the new entry alone
PushDonationOverwrite(userId, entry) ==
    users' = {IF u._id = userId
              THEN [u EXCEPT !.donations = <<entry>>] ELSE u : u \in users}

\* user.donations.push({...}); user.save(): the entry is appended to the
\* stored array of the user document
PushDonation(userId, entry) ==
    users' = {IF u._id = userId
              THEN [u EXCEPT !.donations = Append(@, entry)] ELSE u : u \in users}

OrganDonation(donor, t) ==
    [type |-> "organ", donorId |-> donor._id, name |-> donor.name,
     phone |-> donor.phone, organType |-> donor.organType,
     conditionStatus |-> donor.conditionStatus, timestamp |-> DateV(t),
     status |-> "pending_verification"]

MoneyDonation(donor, t) ==
    [type |-> "money", donorId |-> donor._id, name |-> donor.donorName,
     amount |-> donor.amount, paymentMethod |-> donor.paymentMethod,
     timestamp |-> DateV(t), status |-> "pending_verification"]

\* POST /api/organ-donor, up to `await donor.save()`; without a userId the
\* response follows at once
OrganDonorSubmit(maxDocs, maxSlots, body) ==
    LET e == OrganDonorError(body, now)
        donor == OrganDonorDoc(nextId, body, ToNumber(body.weight).n,
                     Truthy(body.hasDonatedBefore),
                     LastDate(body.hasDonatedBefore, body.lastDonationDate), now)
    IN
    /\ IF e # ""
       THEN /\ Reply("POST /api/organ-donor", body, 400, Err(e))
            /\ UNCHANGED <<coll, nextId, pending>>
       ELSE /\ Room(maxDocs)
            /\ Insert("organ-donor", donor)
            /\ IF Truthy(body.userId)
               THEN /\ FreeSlots(maxSlots) # {}
                    /\ pending' = pending \cup
                          {[req |-> NewSlot(maxSlots), op |-> "organ-donor",
                            donor |-> donor, body |-> body]}
                    /\ UNCHANGED last
               ELSE /\ Reply("POST /api/organ-donor", body, 201,
                             Submitted("Organ donor registration submitted for verification",
                                       "donorId", nextId))
                    /\ UNCHANGED pending
    /\ UNCHANGED <<users, now, observed, redecided>>

\* OrganDonorLog with a fault: a failure of the second step deletes the donor
\* record that the first step saved
OrganDonorLogRollback(c) ==
    /\ c \in pending /\ c.op = "organ-donor"
    /\ pending' = pending \ {c}
    /\ IF ~CastsToObjectId(c.body.userId)
       THEN /\ Reply("POST /api/organ-donor", c.body, 500, Err("Cast to ObjectId failed"))
            /\ coll' = [coll EXCEPT !["organ-donor"] =
                           {d \in @ : d._id # c.donor._id}]
            /\ UNCHANGED users
       ELSE /\ IF ById(users, c.body.userId.n) # {}
               THEN PushDonation(c.body.userId.n, OrganDonation(c.donor, now))
               ELSE UNCHANGED users
            /\ Reply("POST /api/organ-donor", c.body, 201,
                     Submitted("Organ donor registration submitted for verification",
                               "donorId", c.donor._id))
            /\ UNCHANGED coll
    /\ UNCHANGED <<nextId, now, observed, redecided>>

\* POST /api/organ-donor, from `await User.findById(userId)` to the response
OrganDonorLog(c) ==
    /\ c \in pending /\ c.op = "organ-donor"
    /\ pending' = pending \ {c}
    /\ IF ~CastsToObjectId(c.body.userId)
       THEN /\ Reply("POST /api/organ-donor", c.body, 500, Err("Cast to ObjectId failed"))
            /\ UNCHANGED users
       ELSE /\ IF ById(users, c.body.userId.n) # {}
               THEN PushDonation(c.body.userId.n, OrganDonation(c.donor, now))
               ELSE UNCHANGED users
            /\ Reply("POST /api/organ-donor", c.body, 201,
                     Submitted("Organ donor registration submitted for verification",
                               "donorId", c.donor._id))
    /\ UNCHANGED <<coll, nextId, now, observed, redecided>>

\* POST /api/money-donor, up to `await donor.save()`
MoneyDonorSubmit(maxDocs, maxSlots, body) ==
    LET donor == MoneyDonorDoc(nextId, body, now) IN
    /\ Room(maxDocs)
    /\ Insert("money-donor", donor)
    /\ IF Truthy(body.userId)
       THEN /\ FreeSlots(maxSlots) # {}
            /\ pending' = pending \cup
                  {[req |-> NewSlot(maxSlots), op |-> "money-donor",
                    donor |-> donor, body |-> body]}
            /\ UNCHANGED last
       ELSE /\ Reply("POST /api/money-donor", body, 201,
                     Submitted("Money donation submitted for verification",
                               "donorId", nextId))
            /\ UNCHANGED pending
    /\ UNCHANGED <<users, now, observed, redecided>>

\* POST /api/money-donor, from `await User.findById(userId)` to the response
MoneyDonorLog(c) ==
    /\ c \in pending /\ c.op = "money-donor"
    /\ pending' = pending \ {c}
    /\ IF ~CastsToObjectId(c.body.userId)
       THEN /\ Reply("POST /api/money-donor", c.body, 500, Err("Cast to ObjectId failed"))
            /\ UNCHANGED users
       ELSE /\ IF ById(users, c.body.userId.n) # {}
               THEN PushDonation(c.body.userId.n, MoneyDonation(c.donor, now))
               ELSE UNCHANGED users
            /\ Reply("POST /api/money-donor", c.body, 201,
                     Submitted("Money donation submitted for verification",
                               "donorId", c.donor._id))
    /\ UNCHANGED <<coll, nextId, now, observed, redecided>>

---------------------------------------------------------------------------
(* Request inputs.                                                         *)

Phone1 == Str("9876543210")
Phone2 == Str("9123456780")
\* missing, empty, 9 digits, 11 digits, 10 characters with a letter
BadPhones == {Undefined, Str(""), Str("987654321"), Str("98765432101"),
              Str("98765a3210")}

BloodGroups == {Str("O+"), Str("A+")}
OrganTypes == {Str("kidney"), Str("liver")}

\* hasDonatedBefore / lastDonationDate pairs of a submission handled at t
Donated(h, d) == [hasDonatedBefore |-> h, lastDonationDate |-> d]
NoPriorDonation == {Donated(Undefined, Undefined)}
PriorDonations(t) ==
    {Donated(Undefined, Undefined),
     Donated(Bool(FALSE), DateStr(DateAt(-1, t))),
     Donated(Bool(TRUE), Undefined),
     Donated(Bool(TRUE), Str("soon")),
     Donated(Bool(TRUE), DateStr(DateAt(-CooldownDays, t))),
     Donated(Bool(TRUE), DateStr(DateAt(-CooldownDays, t + 1))),
     Donated(Bool(TRUE), DateStr(DateAt(1 - CooldownDays, t))),
     Donated(Bool(TRUE), DateStr(DateAt(1, t)))}

\* req.body of POST /api/blood-donor
BloodDonorBodies(phones, ages, weights, groups, donated) ==
    {[name |-> Str("Asha"), phone |-> ph, age |-> a, weight |-> w,
      bloodGroup |-> g, hasDonatedBefore |-> pd.hasDonatedBefore,
      lastDonationDate |-> pd.lastDonationDate] :
        ph \in phones, a \in ages, w \in weights, g \in groups, pd \in donated}

\* req.body of POST /api/organ-donor
OrganDonorBodies(phones, weights, types, donated, userIds) ==
    {[name |-> Str("Ravi"), phone |-> ph, weight |-> w, organType |-> o,
      conditionStatus |-> Str("healthy"),
      hasDonatedBefore |-> pd.hasDonatedBefore,
      lastDonationDate |-> pd.lastDonationDate, userId |-> uid] :
        ph \in phones, w \in weights, o \in types, pd \in donated,
        uid \in userIds}

\* req.body of POST /api/blood-receiver
BloodReceiverBodies(phones, needs) ==
    {[name |-> Str("Mira"), phone |-> ph, bloodNeed |-> n] :
        ph \in phones, n \in needs}

\* req.body of POST /api/organ-receiver
OrganReceiverBodies(phones, needs) ==
    {[name |-> Str("Omar"), phone |-> ph, organNeed |-> n] :
        ph \in phones, n \in needs}

\* req.body of POST /api/money-donor
MoneyDonorBodies(userIds) ==
    {[donorName |-> Str("Dev"), amount |-> Num(500),
      paymentMethod |-> Str("upi"), userId |-> uid] : uid \in userIds}

\* req.body of POST /api/money-receiver
MoneyReceiverBodies ==
    {[name |-> Str("Lata"), phone |-> Phone1, moneyAmount |-> Num(900),
      moneyNeed |-> Str("surgery")]}

\* ids a client may send: those of the first n documents, a well-formed id
\* of no document, and a string that is not an ObjectId
IdInputs(n) == {IdStr(k) : k \in 0..n} \cup {Str("not-an-id")}

\* userId of a donor submission: also absent
UserIdInputs(n) == IdInputs(n) \cup {Undefined}

\* req.body of POST /api/register
RegisterBodies(names, phones, passwords) ==
    {[name |-> n, phone |-> ph, password |-> pw, profilePhoto |-> Str("pic")] :
        n \in names, ph \in phones, pw \in passwords}

Passwords == {Str("pw1"), Str("pw2")}

\* req.body of PUT /api/user/:id
UpdateBodies(names, phones) ==
    {[name |-> n, phone |-> ph, profilePhoto |-> Undefined] :
        n \in names, ph \in phones}

\* requests POST /api/admin/verify refuses or cannot place
BadVerifyRequests ==
    {VerifyRequest("user", IdStr(1), "approved", Undefined),
     VerifyRequest("blood-donor", IdStr(1), "pending", Undefined),
     VerifyRequest("blood-donor", Str("not-an-id"), "approved", Undefined),
     VerifyRequest("money-donor", IdStr(0), "rejected", Str("ok")),
     VerifyRequest("organ-receiver", IdStr(1), "approved", Undefined)}

Notes == {Undefined, Str("ok")}

\* the decisions an admin sends for the documents in the store
VerifyRequests(notes) ==
    UNION {{VerifyRequest(type, IdStr(d._id), status, n) :
               d \in coll[type], status \in {"approved", "rejected"}, n \in notes} :
           type \in Kinds}

\* ids of the stored users, as a client sends them
UserIds == {IdStr(u._id) : u \in users}

---------------------------------------------------------------------------
(* The whole service, every endpoint, on a small store.  No response is    *)
(* recorded: the claims checked here are about the stored documents.       *)

InitStore ==
    /\ users = {}
    /\ coll = [k \in Kinds |-> {}]
    /\ nextId = 1
    /\ now = 0
    /\ pending = {}
    /\ last = NoResponse
    /\ redecided = {}

Init == InitStore /\ observed = {}

Next ==
    \/ \E b \in BloodDonorBodies({Phone1, Str("98765")}, {Num(18), Num(17)},
                   {Num(50)}, {Str("O+")}, NoPriorDonation) :
          BloodDonorSubmit(MaxDocs, b)
    \/ \E b \in BloodReceiverBodies({Phone1}, {Str("O+")}) :
          BloodReceiverSubmit(MaxDocs, b)
    \/ \E b \in OrganDonorBodies({Phone1}, {Num(50), Num(49)}, {Str("kidney")},
                   NoPriorDonation, {Undefined, IdStr(1), Str("not-an-id")}) :
          OrganDonorSubmit(MaxDocs, MaxSlots, b)
    \/ \E c \in pending : OrganDonorLog(c)
    \/ \E b \in OrganReceiverBodies({Phone1}, {Str("kidney")}) :
          OrganReceiverSubmit(MaxDocs, b)
    \/ \E b \in MoneyDonorBodies({Undefined, IdStr(1)}) :
          MoneyDonorSubmit(MaxDocs, MaxSlots, b)
    \/ \E c \in pending : MoneyDonorLog(c)
    \/ \E b \in MoneyReceiverBodies : MoneyReceiverSubmit(MaxDocs, b)
    \/ \E r \in VerifyRequests(Notes) \cup BadVerifyRequests :
          AdminVerify(r.type, r.id, r.status, r.notes)
    \/ \E ph \in {Phone1, Undefined} : BloodMatchingDonors(ph)
    \/ \E ph \in {Phone1, Undefined} : OrganMatchingDonors(ph)
    \/ \E ph \in {Phone1, Str("98765")}, type \in {"blood", "money"} :
          HasDonated(ph, type)
    \/ ListBloodDonors
    \/ ListOrganDonors
    \/ PendingVerifications
    \/ \E type \in {"blood-donor", "user"}, id \in {IdStr(1), Str("not-an-id")} :
          VerificationDetail(type, id)
    \/ \E b \in RegisterBodies({Str("Ann")}, {Phone1, Phone2},
                   {Str("pw1"), Undefined}) :
          RegisterCheck(MaxDocs, MaxSlots, b)
    \/ \E c \in pending : RegisterSave(c)
    \/ \E ph \in {Phone1}, pw \in Passwords \cup {Undefined} : Login(ph, pw)
    \/ \E id \in {IdStr(1), Str("not-an-id")} : GetUser(id)
    \/ ListUsers
    \/ \E id \in UserIds \cup {IdStr(0), Str("not-an-id")},
          b \in UpdateBodies({Str("Bob")}, {Undefined, Phone1, Phone2}) :
          UpdateUserCheck(MaxSlots, id, b)
    \/ \E c \in pending : UpdateUserSave(c)
    \/ Tick(MaxClock)

Spec == Init /\ [][Next]_vars

---------------------------------------------------------------------------
(* The record lifecycle alone: the six submissions and the admin decision, *)
(* whose responses and replaced decisions are recorded.                    *)

DecideOps == {"POST /api/admin/verify"}

InitDecide == InitStore /\ observed = DecideOps

NextDecide ==
    \/ \E b \in BloodDonorBodies({Phone1}, {Num(18)}, {Num(50)}, {Str("O+")},
                   NoPriorDonation) :
          BloodDonorSubmit(MaxDocs, b)
    \/ \E b \in BloodReceiverBodies({Phone1}, {Str("O+")}) :
          BloodReceiverSubmit(MaxDocs, b)
    \/ \E b \in OrganDonorBodies({Phone1}, {Num(50)}, {Str("kidney")},
                   NoPriorDonation, {Undefined}) :
          OrganDonorSubmit(MaxDocs, MaxSlots, b)
    \/ \E b \in OrganReceiverBodies({Phone1}, {Str("kidney")}) :
          OrganReceiverSubmit(MaxDocs, b)
    \/ \E b \in MoneyDonorBodies({Undefined}) :
          MoneyDonorSubmit(MaxDocs, MaxSlots, b)
    \/ \E b \in MoneyReceiverBodies : MoneyReceiverSubmit(MaxDocs, b)
    \/ \E r \in VerifyRequests(Notes) \cup BadVerifyRequests :
          AdminVerify(r.type, r.id, r.status, r.notes)
    \/ Tick(MaxClock)

SpecDecide == InitDecide /\ [][NextDecide]_vars

-----------
(* The matching subsystem: blood and organ donors and receivers, the admin *)
(* decision and the two matching queries, whose responses are recorded.    *)
(* The user collection is not touched by any of these handlers.            *)

MatchOps ==
    {"GET /api/blood-receiver/matching-donors",
     "GET /api/organ-receiver/matching-donors"}

MatchPhones == {Phone1, Phone2, Str("98765")}

InitMatch == InitStore /\ observed = MatchOps

Matching(maxDocs) ==
    \/ \E b \in BloodDonorBodies({Phone2}, {Num(18)}, {Num(50)}, BloodGroups,
                   NoPriorDonation) :
          BloodDonorSubmit(maxDocs, b)
    \/ \E b \in BloodReceiverBodies({Phone1}, BloodGroups) :
          BloodReceiverSubmit(maxDocs, b)
    \/ \E b \in OrganDonorBodies({Phone2}, {Num(50)}, OrganTypes,
                   NoPriorDonation, {Undefined}) :
          OrganDonorSubmit(maxDocs, MaxSlots, b)
    \/ \E b \in OrganReceiverBodies({Phone1}, OrganTypes) :
          OrganReceiverSubmit(maxDocs, b)
    \/ \E r \in VerifyRequests({Undefined}) :
          AdminVerify(r.type, r.id, r.status, r.notes)
    \/ \E ph \in MatchPhones : BloodMatchingDonors(ph)
    \/ \E ph \in MatchPhones : OrganMatchingDonors(ph)

\* a larger store, all requests within one millisecond: the order of the
\* records a query sorts by date is then the store's choice
NextMatch == Matching(MaxDocsWide)

SpecMatch == InitMatch /\ [][NextMatch]_vars

\* a smaller store, the clock advancing between requests
NextRecent == Matching(MaxDocs) \/ Tick(MaxClockWide)

SpecRecent == InitMatch /\ [][NextRecent]_vars

-----------
(* The validation of the two donor submissions: bodies that differ from a  *)
(* valid one in the age, in the prior donation, in the phone, in the       *)
(* weight or in the resource; every response recorded.                     *)

SubmitOps == {"POST /api/blood-donor", "POST /api/organ-donor"}

Ages == {Undefined, Str("abc"), Num(17), Num(18), Str("18"), Num(65), Num(66)}

BloodDonorInputs(t) ==
    BloodDonorBodies({Phone1}, Ages, {Num(50)}, {Str("O+")}, PriorDonations(t))
    \cup BloodDonorBodies(BadPhones, {Num(18)}, {Num(50)}, {Str("O+")},
                          NoPriorDonation)
    \cup BloodDonorBodies({Phone1}, {Num(18)}, {Num(49), Num(50)},
                          {Str("O+"), Undefined}, NoPriorDonation)

OrganDonorInputs(t) ==
    OrganDonorBodies({Phone1}, {Num(50)}, {Str("kidney")}, PriorDonations(t),
                     {Undefined})
    \cup OrganDonorBodies(BadPhones, {Num(50)}, {Str("kidney")}, NoPriorDonation,
                          {Undefined})
    \cup OrganDonorBodies({Phone1}, {Num(49), Num(50)}, {Str("kidney"), Undefined},
                          NoPriorDonation, {Undefined})

InitSubmit == InitStore /\ observed = SubmitOps

NextSubmit ==
    \/ \E b \in BloodDonorInputs(now) : BloodDonorSubmit(MaxDocs, b)
    \/ \E b \in OrganDonorInputs(now) : OrganDonorSubmit(MaxDocs, MaxSlots, b)
    \/ Tick(MaxClock)

SpecSubmit == InitSubmit /\ [][NextSubmit]_vars

---------------------------------------------------------------------------
(* The user subsystem: registration and login, and the organ and money     *)
(* donor submissions that append to a user's donation log, their handlers  *)
(* interleaving at every await; the responses of these are recorded.       *)

UserOps ==
    {"POST /api/register", "POST /api/login", "POST /api/organ-donor",
     "POST /api/money-donor"}

RegisterInputs ==
    RegisterBodies({Str("Ann")}, {Phone1, Phone2}, {Str("pw1"), Undefined})

LoginPhones == {Phone1, Phone2}
LoginPasswords == Passwords \cup {Undefined}

InitUsers == InitStore /\ observed = UserOps

NextUsers ==
    \/ \E b \in RegisterInputs : RegisterCheck(MaxDocsWide, MaxSlotsWide, b)
    \/ \E c \in pending : RegisterSave(c)
    \/ \E ph \in LoginPhones, pw \in LoginPasswords : Login(ph, pw)
    \/ \E b \in OrganDonorBodies({Phone1}, {Num(50)}, {Str("kidney")},
                   NoPriorDonation, UserIdInputs(MaxDocs)) :
          OrganDonorSubmit(MaxDocsWide, MaxSlotsWide, b)
    \/ \E c \in pending : OrganDonorLog(c)
    \/ \E b \in MoneyDonorBodies({Undefined, IdStr(1)}) :
          MoneyDonorSubmit(MaxDocsWide, MaxSlotsWide, b)
    \/ \E c \in pending : MoneyDonorLog(c)

SpecUsers == InitUsers /\ [][NextUsers]_vars

---------------------------------------------------------------------------
(* The donation log: registration, profile updates, login, the organ and   *)
(* money donor submissions that append to a user's log, and the admin      *)
(* decision on the donor records; no response is recorded.                 *)

LogUserIds == UserIds \cup {IdStr(0), Undefined}

InitLog == InitStore /\ observed = {}

NextLog ==
    \/ \E b \in RegisterBodies({Str("Ann")}, {Phone1, Phone2}, {Str("pw1")}) :
          RegisterCheck(MaxDocsWide, MaxSlotsWide, b)
    \/ \E c \in pending : RegisterSave(c)
    \/ \E ph \in LoginPhones, pw \in {Str("pw1")} : Login(ph, pw)
    \/ \E id \in UserIds, b \in UpdateBodies({Str("Bob")}, {Undefined, Phone2}) :
          UpdateUserCheck(MaxSlotsWide, id, b)
    \/ \E c \in pending : UpdateUserSave(c)
    \/ \E b \in OrganDonorBodies({Phone1}, {Num(50)}, {Str("kidney")},
                   NoPriorDonation, LogUserIds) :
          OrganDonorSubmit(MaxDocsWide, MaxSlotsWide, b)
    \/ \E c \in pending : OrganDonorLog(c)
    \/ \E b \in MoneyDonorBodies(LogUserIds) :
          MoneyDonorSubmit(MaxDocsWide, MaxSlotsWide, b)
    \/ \E c \in pending : MoneyDonorLog(c)
    \/ \E r \in VerifyRequests({Undefined}) :
          AdminVerify(r.type, r.id, r.status, r.notes)

SpecLog == InitLog /\ [][NextLog]_vars

---------------------------------------------------------------------------
(* Phone validation: the five endpoints that test a phone number, whose    *)
(* responses are recorded, with the receiver submissions and the admin     *)
(* decision that fill the store the queries read.                          *)

PhoneOps ==
    {"GET /api/has-donated", "POST /api/blood-donor", "POST /api/organ-donor",
     "GET /api/blood-receiver/matching-donors",
     "GET /api/organ-receiver/matching-donors"}

PhoneInputs == BadPhones \cup {Phone1}

BloodDonorPhoneInputs ==
    BloodDonorBodies(PhoneInputs, {Num(18), Num(17), Undefined}, {Num(50)},
                     {Str("O+")}, NoPriorDonation)

OrganDonorPhoneInputs ==
    OrganDonorBodies(PhoneInputs, {Num(50), Num(49)}, {Str("kidney"), Undefined},
                     NoPriorDonation, {Undefined})
    \cup OrganDonorBodies(BadPhones, {Num(50)}, {Str("kidney")},
                          NoPriorDonation, {IdStr(1), Str("not-an-id")})

InitPhone == InitStore /\ observed = PhoneOps

NextPhone ==
    \/ \E b \in BloodDonorPhoneInputs : BloodDonorSubmit(MaxDocs, b)
    \/ \E b \in OrganDonorPhoneInputs : OrganDonorSubmit(MaxDocs, MaxSlots, b)
    \/ \E b \in BloodReceiverBodies({Phone1}, {Str("O+")}) :
          BloodReceiverSubmit(MaxDocs, b)
    \/ \E b \in OrganReceiverBodies({Phone1}, {Str("kidney")}) :
          OrganReceiverSubmit(MaxDocs, b)
    \/ \E r \in VerifyRequests({Undefined}) :
          AdminVerify(r.type, r.id, r.status, r.notes)
    \/ \E ph \in PhoneInputs, type \in {"blood", "organ", "money"} :
          HasDonated(ph, type)
    \/ \E ph \in PhoneInputs : BloodMatchingDonors(ph)
    \/ \E ph \in PhoneInputs : OrganMatchingDonors(ph)

SpecPhone == InitPhone /\ [][NextPhone]_vars

---------------------------------------------------------------------------
(* The two steps of a donor submission made by a signed-in user: the organ *)
(* and money donor submissions, interleaved with registration, the admin   *)
(* decision and the reads of other clients; the responses of the           *)
(* submissions and of GET /api/user/:id are recorded.                      *)

StepOps == {"POST /api/organ-donor", "POST /api/money-donor", "GET /api/user"}

StepUserIds == UserIds \cup {Str("not-an-id")}

InitSteps == InitStore /\ observed = StepOps

NextSteps ==
    \/ \E b \in RegisterBodies({Str("Ann")}, {Phone1}, {Str("pw1")}) :
          RegisterCheck(MaxDocsWide, MaxSlotsWide, b)
    \/ \E c \in pending : RegisterSave(c)
    \/ \E b \in OrganDonorBodies({Phone1}, {Num(50)}, {Str("kidney")},
                   NoPriorDonation, StepUserIds) :
          OrganDonorSubmit(MaxDocsWide, MaxSlotsWide, b)
    \/ \E c \in pending : OrganDonorLog(c)
    \/ \E b \in MoneyDonorBodies(StepUserIds) :
          MoneyDonorSubmit(MaxDocsWide, MaxSlotsWide, b)
    \/ \E c \in pending : MoneyDonorLog(c)
    \/ \E r \in VerifyRequests({Undefined}) :
          AdminVerify(r.type, r.id, r.status, r.notes)
    \/ \E id \in UserIds : GetUser(id)
    \/ PendingVerifications

SpecSteps == InitSteps /\ [][NextSteps]_vars

---------------------------------------------------------------------------
(* The phone numbers of the accounts: registration and profile updates,    *)
(* each a check and a write with other requests between them; the          *)
(* responses of the profile updates are recorded.                          *)

AccountOps == {"PUT /api/user"}

Phone3 == Str("9000000003")

AccountPhones == {Phone1, Phone2, Phone3}

InitAccounts == InitStore /\ observed = AccountOps

NextAccounts ==
    \/ \E b \in RegisterBodies({Str("Ann")}, {Phone1, Phone2}, {Str("pw1")}) :
          RegisterCheck(MaxDocs, MaxSlotsWide, b)
    \/ \E c \in pending : RegisterSave(c)
    \/ \E id \in UserIds,
          b \in UpdateBodies({Str("Bob")}, AccountPhones \cup {Undefined}) :
          UpdateUserCheck(MaxSlotsWide, id, b)
    \/ \E c \in pending : UpdateUserSave(c)

SpecAccounts == InitAccounts /\ [][NextAccounts]_vars

---------------------------------------------------------------------------
(* The record lifecycle.                                                   *)

\* the record with the id of d after the step, in collection k
After(k, d) == ById(coll'[k], d._id)

\* the step is an admin verify call that addresses record d of collection k
VerifyStepOn(k, d) ==
    \E status \in {"approved", "rejected"}, notes \in Notes :
        AdminVerify(k, IdStr(d._id), status, notes)

\* C1: in every reachable state, every donor and receiver record of the six
\* kinds has isVerified = TRUE exactly when its verificationStatus is
\* "approved".
C1_VerifiedIffApproved ==
    \A d \in AllDocs : d.isVerified <=> (d.verificationStatus = "approved")

\* one record approved and verified, another rejected by the admin and not
\* verified
C1_Witness ==
    \E d, e \in AllDocs :
        /\ d.verificationStatus = "approved" /\ d.isVerified
        /\ e.verificationStatus = "rejected" /\ ~e.isVerified
        /\ e.verifiedAt # Undefined

\* C2: every record is created with verificationStatus "pending"; a step
\* changes a record's verificationStatus only if it is an admin verify call
\* on that record, and then to "approved" or "rejected"; a record that is
\* not "pending" is not "pending" after any step.
C2_StatusLifecycle ==
    [][\A k \in Kinds :
          /\ \A e \in coll'[k] :
                ById(coll[k], e._id) = {} => e.verificationStatus = "pending"
          /\ \A d \in coll[k] : \A e \in After(k, d) :
                /\ e.verificationStatus # d.verificationStatus =>
                      /\ VerifyStepOn(k, d)
                      /\ e.verificationStatus \in {"approved", "rejected"}
                /\ d.verificationStatus # "pending" =>
                      e.verificationStatus # "pending"]_vars

\* a record decided by the admin some time after it was submitted, with a
\* registered user in the store
C2_Witness ==
    /\ users # {}
    /\ \E d \in AllDocs :
          /\ d.verificationStatus \in {"approved", "rejected"}
          /\ d.verifiedAt # Undefined /\ d.verifiedAt.v > d.submittedAt.v

\* C3 as stated: once a record is not "pending", no step changes its
\* verificationStatus.
C3_DecidedOnce ==
    [][\A k \in Kinds : \A d \in coll[k] : \A e \in After(k, d) :
          d.verificationStatus # "pending" =>
              e.verificationStatus = d.verificationStatus]_vars

\* C3, amended: a record is never deleted and never returns to "pending",
\* but its status can change again: an admin verify call that addresses a
\* stored record sets its verificationStatus to the status the call gives,
\* whatever the record's status was, and changes no other record.
C3_VerifyReplacesDecision ==
    [][\A k \in Kinds : \A d \in coll[k] :
          /\ After(k, d) # {}
          /\ \A e \in After(k, d) :
                d.verificationStatus # "pending" => e.verificationStatus # "pending"
          /\ \A status \in {"approved", "rejected"}, notes \in Notes :
                AdminVerify(k, IdStr(d._id), status, notes) =>
                    /\ \A e \in After(k, d) : e.verificationStatus = status
                    /\ \A j \in Kinds : coll'[j] \ After(k, d) = coll[j] \ {d}]_vars

\* an approved record that a later admin call rejected
C3_Witness ==
    \E d \in AllDocs :
        /\ d._id \in redecided
        /\ d.verificationStatus = "rejected"
        /\ last.op = "POST /api/admin/verify" /\ last.code = 200
        /\ last.body.record = d

---------------------------------------------------------------------------
(* The matching queries.                                                   *)

\* the receiver records of a phone, and the approved ones among them
OfPhone(receivers, phone) == {r \in receivers : r.phone = phone}
ApprovedOfPhone(receivers, phone) ==
    {r \in OfPhone(receivers, phone) : r.verificationStatus = "approved"}

\* response r carries a receiver approved for the phone and exactly the
\* approved donors whose attr equals that receiver's need
ExactDonors(r, receivers, donors, need, attr, phone) ==
    /\ r.code = 200
    /\ \E rc \in ApprovedOfPhone(receivers, phone) :
          r.body.receiver.need = rc[need]
    /\ r.body.donors =
          {d \in donors : /\ d.verificationStatus = "approved"
                          /\ d[attr] = r.body.receiver.need}

\* the step is a matching query; its phone is then last'.req.phone
BloodMatchingStep ==
    /\ last'.op = "GET /api/blood-receiver/matching-donors"
    /\ BloodMatchingDonors(last'.req.phone)

OrganMatchingStep ==
    /\ last'.op = "GET /api/organ-receiver/matching-donors"
    /\ OrganMatchingDonors(last'.req.phone)

\* C4: a blood (organ) matching query with a 10-digit phone that has an
\* approved receiver record answers 200 with exactly the donor records of
\* that kind that are approved at query time and whose bloodGroup
\* (organType) equals the selected receiver's bloodNeed (organNeed).
C4_ExactlyApprovedMatchingDonors ==
    [][/\ ( /\ BloodMatchingStep
            /\ PhoneRegexTest(last'.req.phone)
            /\ ApprovedOfPhone(coll["blood-receiver"], last'.req.phone) # {} )
          => ExactDonors(last', coll["blood-receiver"], coll["blood-donor"],
                         "bloodNeed", "bloodGroup", last'.req.phone)
       /\ ( /\ OrganMatchingStep
            /\ PhoneRegexTest(last'.req.phone)
            /\ ApprovedOfPhone(coll["organ-receiver"], last'.req.phone) # {} )
          => ExactDonors(last', coll["organ-receiver"], coll["organ-donor"],
                         "organNeed", "organType", last'.req.phone)]_vars

\* a blood matching response that lists an approved donor and leaves out
\* another donor in the store
C4_Witness ==
    /\ last.op = "GET /api/blood-receiver/matching-donors"
    /\ last.code = 200
    /\ last.body.donors # {}
    /\ last.body.donors \subseteq coll["blood-donor"]
    /\ last.body.donors # coll["blood-donor"]

\* response r is as C5 states it for the phone
NotFoundOrPending(r, receivers, phone) ==
    /\ OfPhone(receivers, phone) = {} => r.code = 404
    /\ (\E rc \in OfPhone(receivers, phone) : rc.verificationStatus = "pending")
          => r.code = 403 /\ r.body.status = "pending"

\* C5 as stated: a matching query with a 10-digit phone answers NotFound
\* when the phone has no receiver record, and Forbidden carrying "pending"
\* when a receiver record of the phone is pending.
C5_PendingIsForbidden ==
    [][/\ (BloodMatchingStep /\ PhoneRegexTest(last'.req.phone))
          => NotFoundOrPending(last', coll["blood-receiver"], last'.req.phone)
       /\ (OrganMatchingStep /\ PhoneRegexTest(last'.req.phone))
          => NotFoundOrPending(last', coll["organ-receiver"], last'.req.phone)]_vars

\* response r is NotFound for a phone without records, Forbidden with the
\* status of a most recently submitted record when no record of the phone
\* is approved, and carries donors only when a record of the phone is
\* approved
ByLatestRecord(r, receivers, phone) ==
    /\ OfPhone(receivers, phone) = {} => r.code = 404
    /\ (OfPhone(receivers, phone) # {} /\ ApprovedOfPhone(receivers, phone) = {})
          => /\ r.code = 403
             /\ \E rc \in OfPhone(receivers, phone) :
                   /\ r.body.status = rc.verificationStatus
                   /\ \A q \in OfPhone(receivers, phone) :
                         q.submittedAt.v <= rc.submittedAt.v
    /\ ApprovedOfPhone(receivers, phone) # {} => r.code = 200
    /\ "donors" \in DOMAIN r.body => ApprovedOfPhone(receivers, phone) # {}

\* C5, amended: a matching query with a 10-digit phone answers NotFound
\* when the phone has no receiver record; when it has records but none
\* approved, Forbidden carrying the status of the most recently submitted
\* one (pending or rejected); when one is approved, 200 even if another
\* record of the phone is pending.  Donors are returned only in the last
\* case.
C5_ForbiddenCarriesLatestStatus ==
    [][/\ (BloodMatchingStep /\ PhoneRegexTest(last'.req.phone))
          => ByLatestRecord(last', coll["blood-receiver"], last'.req.phone)
       /\ (OrganMatchingStep /\ PhoneRegexTest(last'.req.phone))
          => ByLatestRecord(last', coll["organ-receiver"], last'.req.phone)]_vars

\* a Forbidden response carrying "rejected" for a phone that also has an
\* older record still pending
C5_Witness ==
    /\ last.op = "GET /api/blood-receiver/matching-donors"
    /\ last.code = 403
    /\ last.body.status = "rejected"
    /\ \E p, q \in OfPhone(coll["blood-receiver"], last.req.phone) :
          /\ p.verificationStatus = "pending"
          /\ q.verificationStatus = "rejected"
          /\ p.submittedAt.v < q.submittedAt.v

---------------------------------------------------------------------------
(* The validation of donor submissions.                                    *)

\* the step stores one new record of the kind and answers 201
Accepted(kind) ==
    /\ last'.code = 201
    /\ \E d \in coll'[kind] :
          /\ d._id = nextId /\ d.verificationStatus = "pending"
          /\ coll' = [coll EXCEPT ![kind] = @ \cup {d}]

\* the step stores nothing and answers 400
Rejected ==
    /\ last'.code = 400
    /\ coll' = coll

\* the validations of a blood donor body other than the prior donation's
BloodOtherwiseValid(b) ==
    /\ Truthy(b.name) /\ Truthy(b.bloodGroup)
    /\ PhoneRegexTest(b.phone)
    /\ AgeError(b.age) = "" /\ WeightError(b.weight) = ""

\* the validations of an organ donor body other than the prior donation's
OrganOtherwiseValid(b) ==
    /\ Truthy(b.name) /\ Truthy(b.organType) /\ Truthy(b.conditionStatus)
    /\ PhoneRegexTest(b.phone)
    /\ WeightError(b.weight) = ""

\* what C8 states of a step that handles body b at time t
CooldownOutcome(b, t, kind) ==
    /\ ~Truthy(b.hasDonatedBefore) => Accepted(kind)
    /\ (Truthy(b.hasDonatedBefore) /\ ~Truthy(b.lastDonationDate)) => Rejected
    /\ (Truthy(b.hasDonatedBefore) /\ b.lastDonationDate.t = "datestring") =>
          /\ DiffDays(t, b.lastDonationDate.time) < 90 => Rejected
          /\ DiffDays(t, b.lastDonationDate.time) >= 90 => Accepted(kind)
          /\ b.lastDonationDate.time = DateAt(-89, t) => Rejected
          /\ b.lastDonationDate.time = DateAt(-90, t) => Accepted(kind)

\* (A step of a recorded endpoint leaves its request in last'.req.)
\* C8: a blood or organ donor submission that passes all other validations
\* and has hasDonatedBefore true is rejected with 400 when
\* floor((now - lastDonationDate) / 1 day) < 90 and accepted when it is
\* >= 90 (89 whole days rejected, 90 whole days accepted); it is rejected
\* when lastDonationDate is missing; when hasDonatedBefore is false the
\* date is not checked.
C8_CooldownBoundary ==
    [][/\ ( /\ last'.op = "POST /api/blood-donor"
            /\ BloodDonorSubmit(MaxDocs, last'.req)
            /\ BloodOtherwiseValid(last'.req) )
          => CooldownOutcome(last'.req, now, "blood-donor")
       /\ ( /\ last'.op = "POST /api/organ-donor"
            /\ OrganDonorSubmit(MaxDocs, MaxSlots, last'.req)
            /\ OrganOtherwiseValid(last'.req) )
          => CooldownOutcome(last'.req, now, "organ-donor")]_vars

\* a blood donor stored with a last donation exactly 90 days before the
\* submission, and an organ donor submission 89 days after the last
\* donation just refused
C8_Witness ==
    /\ \E d \in coll["blood-donor"] :
          /\ d.hasDonatedBefore
          /\ d.lastDonationDate = [t |-> "date", at |-> DateAt(-90, d.submittedAt.v)]
    /\ last.op = "POST /api/organ-donor"
    /\ last.code = 400
    /\ last.body = Err("At least 90 days must have passed since the last donation")
    /\ Truthy(last.req.hasDonatedBefore)
    /\ last.req.lastDonationDate = DateStr(DateAt(-89, now))

\* the age of a body as a number within [18, 65]
AgeWithinRange(age) ==
    \E n \in 18..65 : age \in {Num(n), Str(ToString(n))}

\* the validations of a blood donor body other than the age's
BloodValidButAge(b, t) ==
    /\ Truthy(b.name) /\ Truthy(b.bloodGroup)
    /\ PhoneRegexTest(b.phone)
    /\ WeightError(b.weight) = ""
    /\ CooldownError(b.hasDonatedBefore, b.lastDonationDate, t) = ""

\* C9: a blood donor submission that is otherwise valid is accepted (one
\* record created, 201) if and only if its age is within [18, 65]; any
\* other age, 17 and 66 among them, is rejected with 400 and creates no
\* record.
C9_AgeBoundary ==
    [][( /\ last'.op = "POST /api/blood-donor"
          /\ BloodDonorSubmit(MaxDocs, last'.req)
          /\ BloodValidButAge(last'.req, now) )
        => /\ AgeWithinRange(last'.req.age) => Accepted("blood-donor")
           /\ ~AgeWithinRange(last'.req.age) => Rejected
           /\ last'.req.age \in {Num(17), Num(66)} => Rejected
           /\ last'.req.age \in {Num(18), Num(65)} => Accepted("blood-donor")]_vars

\* blood donors of age 18 and 65 in the store, and a submission of age 66
\* just refused
C9_Witness ==
    /\ \E d, e \in coll["blood-donor"] : d.age = 18 /\ e.age = 65
    /\ last.op = "POST /api/blood-donor"
    /\ last.code = 400
    /\ last.req.age = Num(66)
    /\ last.body = Err("Age must be between 18 and 65")

---------------------------------------------------------------------------
(* Users.                                                                  *)

\* the 400 response of a registration whose phone is taken
Conflict == Err("User with this phone number already exists")

\* the step answers a registration of body b as C6 states it
ConflictOrCreated(b) ==
    IF \E u \in users : u.phone = b.phone
    THEN /\ last'.code = 400 /\ last'.body = Conflict
         /\ users' = users
    ELSE /\ last'.code = 201
         /\ "password" \notin DOMAIN last'.body.user
         /\ \E u \in users' : /\ u \notin users /\ u.phone = b.phone
                               /\ users' = users \cup {u}

\* C6: a register call (with a name, a photo and a string password) whose
\* phone is present in the user collection when its response is made
\* answers the 400 conflict and adds no user, also when it interleaves
\* with other register calls; one whose phone is absent creates exactly
\* one user and returns it without the password.
C6_ConflictOrCreated ==
    [][/\ \A b \in RegisterInputs :
            ( /\ RegisterCheck(MaxDocsWide, MaxSlotsWide, b)
              /\ \E u \in users : u.phone = b.phone )
            => ConflictOrCreated(b)
       /\ \A c \in pending :
            ( /\ RegisterSave(c)
              /\ IsStringArg(c.body.password) /\ UserValid(c.body) )
            => ConflictOrCreated(c.body)]_vars

\* C7: a login that fails gets the response it would get if no user had
\* its phone: the response does not tell whether the phone is registered.
C7_FailureHidesRegistration ==
    [][( /\ last'.op = "POST /api/login"
         /\ Login(last'.req.phone, last'.req.password)
         /\ last'.code # 200 )
       => last' = LoginResponse({u \in users : u.phone # last'.req.phone},
                                last'.req.phone, last'.req.password)]_vars

\* the userId of a submission names a stored user
Resolves(userId) ==
    \E u \in users : userId = IdStr(u._id)

\* C10: an organ donor submission with a userId, its donor record saved: if
\* the userId names a stored user, that user's donation log grows by one
\* entry with status "pending_verification" and no other user changes; if
\* it resolves to no user, the response is still 201 "pending_verification"
\* and the donor record stays.
C10_LoggedOrStillCreated ==
    [][\A c \in pending :
          OrganDonorLog(c) =>
              /\ c.donor \in coll'["organ-donor"]
              /\ last'.code = 201
              /\ last'.body.status = "pending_verification"
              /\ IF Resolves(c.body.userId)
                 THEN \A u \in users :
                        IF c.body.userId = IdStr(u._id)
                        THEN \E v \in users' :
                               /\ v._id = u._id
                               /\ Len(v.donations) = Len(u.donations) + 1
                               /\ SubSeq(v.donations, 1, Len(u.donations))
                                     = u.donations
                               /\ v.donations[Len(v.donations)].status
                                     = "pending_verification"
                        ELSE u \in users'
                 ELSE users' = users]_vars

---------------------------------------------------------------------------
(* The donation log.                                                       *)

\* sequence p is a prefix of sequence q
IsPrefix(p, q) == Len(p) <= Len(q) /\ SubSeq(q, 1, Len(p)) = p

\* C11: every step of any operation (donor submissions for the same user,
\* profile updates, admin decisions, logins, in any interleaving) leaves
\* every user stored, with the old donation log as a prefix of the new one:
\* no entry is removed, reordered, lost or modified, and an entry keeps the
\* status "pending_verification" when its donor record is decided.
C11_LogAppendOnly ==
    [][\A u \in users : \E v \in users' :
          /\ v._id = u._id
          /\ IsPrefix(u.donations, v.donations)
          /\ \A i \in 1..Len(v.donations) :
                v.donations[i].status = "pending_verification"]_vars

\* a renamed user whose log holds two entries, the first for an organ donor
\* record that the admin has approved since
C11_Witness ==
    \E u \in users :
        /\ u.name = Str("Bob")
        /\ Len(u.donations) = 2
        /\ u.donations[1].type = "organ"
        /\ u.donations[1].status = "pending_verification"
        /\ \E d \in coll["organ-donor"] :
              /\ d._id = u.donations[1].donorId
              /\ d.verificationStatus = "approved"

---------------------------------------------------------------------------
(* The outcomes of the admin decision.                                     *)

\* the documents of a kind that a request's id addresses
Addressed(r) == {d \in coll[r.type] : IdStr(d._id) = r.id}

\* the decision of request r as the claim states it, on document d at time t
Decided(d, r, t) ==
    [d EXCEPT !.verificationStatus = r.status,
              !.verifiedAt = DateV(t),
              !.isVerified = (r.status = "approved"),
              !.adminNotes = IF r.notes = Undefined THEN "" ELSE r.notes.s]

\* C12: a verify call answers 400 for a kind outside the six or a status
\* other than approved / rejected, 404 when its id is absent from the kind's
\* collection, each time changing no record; otherwise it answers 200,
\* changes the addressed record alone to the decision it carries, and the
\* verification detail of the same kind and id then shows that record.
C12_VerifyOutcome ==
    [][\A r \in VerifyRequests(Notes) \cup BadVerifyRequests :
         ( /\ last'.op = "POST /api/admin/verify"
           /\ last'.req = r
           /\ AdminVerify(r.type, r.id, r.status, r.notes) )
         => IF r.type \notin Kinds \/ r.status \notin {"approved", "rejected"}
            THEN last'.code = 400 /\ coll' = coll
            ELSE IF Addressed(r) = {}
            THEN last'.code = 404 /\ coll' = coll
            ELSE \E d \in Addressed(r) :
                   /\ last'.code = 200
                   /\ coll' = [coll EXCEPT ![r.type] =
                                  (@ \ {d}) \cup {Decided(d, r, now)}]
                   /\ VerificationDetailResponse(r.type, r.id)'.body.record
                        = Decided(d, r, now)]_vars

---------------------------------------------------------------------------
(* Phone validation.                                                       *)

\* a phone that is missing or is not exactly ten decimal digits
NotTenDigits(phone) ==
    \/ phone.t # "string"
    \/ Len(phone.s) # 10
    \/ \E i \in 1..Len(phone.s) : SubSeq(phone.s, i, i) \notin Digit

\* a step that only answers 400
OnlyBadRequest == last'.code = 400 /\ coll' = coll /\ users' = users

\* C13: has-donated, the blood and organ donor submissions and the two
\* matching queries answer 400 for every phone that is missing or is not
\* exactly ten decimal digits, whatever the other inputs are, and change no
\* collection.
C13_BadPhoneIsBadRequest ==
    [][(last'.op \in PhoneOps /\ NotTenDigits(last'.req.phone)) =>
        /\ ( /\ last'.op = "GET /api/has-donated"
             /\ HasDonated(last'.req.phone, last'.req.type) ) => OnlyBadRequest
        /\ ( /\ last'.op = "POST /api/blood-donor"
             /\ BloodDonorSubmit(MaxDocs, last'.req) ) => OnlyBadRequest
        /\ ( /\ last'.op = "POST /api/organ-donor"
             /\ OrganDonorSubmit(MaxDocs, MaxSlots, last'.req) ) => OnlyBadRequest
        /\ ( /\ last'.op = "GET /api/blood-receiver/matching-donors"
             /\ BloodMatchingDonors(last'.req.phone) ) => OnlyBadRequest
        /\ ( /\ last'.op = "GET /api/organ-receiver/matching-donors"
             /\ OrganMatchingDonors(last'.req.phone) ) => OnlyBadRequest]_vars

\* an organ donor submission refused for its nine-digit phone alone, on a
\* store that holds a record
C13_Witness ==
    /\ last.op = "POST /api/organ-donor"
    /\ last.req.phone = Str("987654321")
    /\ last.req.weight = Num(50)
    /\ Truthy(last.req.organType)
    /\ last.code = 400
    /\ last.body = Err("Invalid phone number format")
    /\ AllDocs # {}

---------------------------------------------------------------------------
(* The two steps of a donor submission.                                    *)

\* the submissions that have saved their donor record and not yet logged it
BetweenSteps == {c \in pending : c.op \in {"organ-donor", "money-donor"}}

\* the second step of submission c
LogStep(c) == IF c.op = "organ-donor" THEN OrganDonorLog(c) ELSE MoneyDonorLog(c)

\* some user's log has an entry for the donor record of c
Logged(c) ==
    \E u \in users : \E i \in 1..Len(u.donations) :
        u.donations[i].donorId = c.donor._id

\* the donor record of c is in the store: as it was saved, with status
\* "pending", while no admin decision has been made on it
StoredAsSaved(c, store) ==
    \E d \in store[c.op] :
        /\ d._id = c.donor._id
        /\ d.verifiedAt = Undefined =>
              d.verificationStatus = "pending" /\ d = c.donor

\* C14: an organ or money donor submission with a userId is two steps.
\* Between them the donor record is stored and no log has an entry for it,
\* a state the other requests run in.  When the second step fails (500),
\* it changes no record: the donor record stays stored (pending, no
\* rollback) and every user's log is as it was.
C14_NoRollback ==
    [][\A c \in BetweenSteps :
         /\ StoredAsSaved(c, coll) /\ ~Logged(c)
         /\ ( /\ LogStep(c)
              /\ last'.req = c.body
              /\ last'.code = 500 )
            => /\ coll' = coll
               /\ users' = users
               /\ StoredAsSaved(c, coll')]_vars

\* an organ donor submission has answered 500 in its second step: its donor
\* record is stored and pending, and the registered user's log is empty
C14_Witness ==
    /\ last.op = "POST /api/organ-donor"
    /\ last.code = 500
    /\ last.req.userId = Str("not-an-id")
    /\ BetweenSteps = {}
    /\ \E d \in coll["organ-donor"] :
          d.verificationStatus = "pending" /\ d.phone = last.req.phone
    /\ \E u \in users : u.donations = <<>>

---------------------------------------------------------------------------
(* The phone numbers of the accounts.                                      *)

\* no two distinct users have the same phone
NoSharedPhone == \A u, v \in users : u.phone = v.phone => u = v

\* the step sends the response of an updateUser call: from the check, or
\* from the write of a call suspended after its check
UpdateUserResponds ==
    /\ last'.op = "PUT /api/user"
    /\ \/ /\ UpdateUserCheck(MaxSlotsWide, last'.req.id, last'.req.body)
          /\ pending' = pending
       \/ \E c \in pending :
            /\ c.op = "updateUser"
            /\ c.id = last'.req.id /\ c.body = last'.req.body
            /\ UpdateUserSave(c)

\* a user other than `id` has the phone / the user `id` has it
HeldByOther(id, phone) == \E u \in users : u.phone = phone /\ IdStr(u._id) # id
HeldBy(id, phone) == \E u \in users : u.phone = phone /\ IdStr(u._id) = id

\* C15: in every reachable state no two distinct users have the same phone,
\* however register and updateUser calls interleave between their check and
\* their write; an updateUser call that sets a phone held by a different
\* user fails and changes no user, and one that sets the user's own current
\* phone succeeds and leaves the phone as it is.
C15_PhonesStayUnique ==
    /\ []NoSharedPhone
    /\ [][UpdateUserResponds =>
            LET id == last'.req.id
                phone == last'.req.body.phone
            IN /\ (Truthy(phone) /\ HeldByOther(id, phone))
                     => last'.code # 200 /\ users' = users
               /\ HeldBy(id, phone)
                     => /\ last'.code = 200
                        /\ last'.body.user.phone = phone
                        /\ \A u \in users : \E v \in users' :
                              v._id = u._id /\ v.phone = u.phone]_vars

\* two users with different phones, after an update of one of them to the
\* other's phone passed its check and had its write refused by the index
C15_Witness ==
    /\ \E u, v \in users : u.phone # v.phone
    /\ last.op = "PUT /api/user"
    /\ last.code = 500
    /\ last.body = Err("E11000 duplicate key error")
    /\ \E u \in users : /\ u.phone = last.req.body.phone
                        /\ IdStr(u._id) # last.req.id

=============================================================================
